---- MODULE Spec2Model ----
(***************************************************************************)
(* Model of the key-ordering and arena substrate: the arena allocator      *)
(* (util/arena.cc), the bytewise comparator helpers (util/comparator.cc)   *)
(* and the internal-key codec (db/dbformat.h).                             *)
(*                                                                         *)
(* Addresses are natural numbers, 0 is nullptr.  Byte strings are          *)
(* sequences of numbers in 0..255.  A 64-bit word is a sequence of four    *)
(* 16-bit limbs, least significant first, so that shifts and masks are     *)
(* computed arithmetically on numbers that stay below 2^31.                *)
(***************************************************************************)
EXTENDS Integers, Sequences, FiniteSets, TLC

VARIABLES
  \* ---- Arena (util/arena.h members) ----
  alloc_ptr_,              \* char* alloc_ptr_
  alloc_bytes_remaining_,  \* size_t alloc_bytes_remaining_
  blocks_,                 \* std::vector<char*> blocks_, with each new[] size
  memory_usage_,           \* std::atomic<size_t> memory_usage_
  heap_top,                \* system allocator: first address never handed out
  returned,                \* every region returned so far, in call order
  last_call,               \* what the most recent call did
  \* ---- BytewiseComparatorImpl::FindShortestSeparator(start, limit) ----
  start,                   \* std::string* start, rewritten in place
  limit,                   \* const Slice& limit
  start0,                  \* *start as it was passed in
  sep_pc,                  \* "idle", "call", "done", "assert"
  \* ---- BytewiseComparatorImpl::FindShortSuccessor(key) ----
  key,                     \* std::string* key, rewritten in place
  key0,                    \* *key as it was passed in
  succ_pc,                 \* "idle", "call", "done"
  \* ---- AppendInternalKey / ParseInternalKey ----
  internal_key,            \* const Slice& internal_key given to the parser
  origin,                  \* "none", "appended" (by AppendInternalKey), "raw"
  appended_key,            \* the ParsedInternalKey that was appended
  parse_result,            \* *result, the ParsedInternalKey filled by the parser
  parse_ret,               \* what ParseInternalKey returned
  codec_pc,                \* "idle", "start", "input", "parsed"
  \* ---- InternalKey ----
  rep_,                    \* std::string rep_
  ik_call,                 \* the last member function called and its outcome
  ik_pc                    \* "idle", "live", "stopped"

arenaVars == <<alloc_ptr_, alloc_bytes_remaining_, blocks_, memory_usage_,
               heap_top, returned, last_call>>

sepVars == <<start, limit, start0, sep_pc>>

succVars == <<key, key0, succ_pc>>

codecVars == <<internal_key, origin, appended_key, parse_result, parse_ret,
               codec_pc>>

ikVars == <<rep_, ik_call, ik_pc>>

vars == <<arenaVars, sepVars, succVars, codecVars, ikVars>>

-----------------------------------------------------------------------------
(* Bounds *)

\* Number of allocation calls made against the one arena.
MaxCalls == 4

\* Longest start and limit handed to FindShortestSeparator.
MaxSepLen == 3

\* Longest key handed to FindShortSuccessor.
MaxKeyLen == 4

\* Byte values the strings are built from: three neighbouring low bytes and
\* the two highest bytes.
Bytes == {97, 98, 99, 254, 255}

ByteStrings(n) == UNION {[1..k -> Bytes] : k \in 0..n}

SepIdle == start = <<>> /\ limit = <<>> /\ start0 = <<>> /\ sep_pc = "idle"

SuccIdle == key = <<>> /\ key0 = <<>> /\ succ_pc = "idle"

\* Longest user key put into an internal key.
MaxUserKeyLen == 2

\* Byte values user keys are built from.
UserKeyBytes == {97, 255}

UserKeys == UNION {[1..k -> UserKeyBytes] : k \in 0..MaxUserKeyLen}

-----------------------------------------------------------------------------
(* Values shared by the models, and the state of a part that is not running *)

\* enum ValueType
kTypeDeletion == 0
kTypeValue == 1
kValueTypeForSeek == kTypeValue

ValueTypes == {kTypeDeletion, kTypeValue}

\* A uint64_t as four 16-bit limbs, least significant first.
Limb == 256 * 256

Word(a, b, c, d) == <<a, b, c, d>>

\* ((0x1ull << 56) - 1)
kMaxSequenceNumber == Word(Limb - 1, Limb - 1, Limb - 1, 255)

\* ParsedInternalKey() {}  // Intentionally left uninitialized
\* The fields hold whatever the memory held: two such contents.
Uninitialized == [user_key |-> <<>>, sequence |-> Word(0, 0, 0, 0),
                  type |-> kTypeDeletion]

UninitializedKeys ==
  {Uninitialized,
   [user_key |-> <<255>>, sequence |-> kMaxSequenceNumber, type |-> 255]}

CodecIdle ==
  /\ internal_key = <<>>
  /\ origin = "none"
  /\ appended_key = Uninitialized
  /\ parse_result = Uninitialized
  /\ parse_ret = FALSE
  /\ codec_pc = "idle"

IkIdle == rep_ = <<>> /\ ik_call = [op |-> "none", ret |-> "none"] /\ ik_pc = "idle"

-----------------------------------------------------------------------------
(* Arena *)

kBlockSize == 4096

\* sizeof(char*) on the modelled (LP64) build.
kPointerSize == 8

\* const int align = (sizeof(void*) > 8) ? sizeof(void*) : 8;
Align == IF kPointerSize > 8 THEN kPointerSize ELSE 8

\* Request sizes handed to Allocate (bytes > 0 is asserted by Allocate) and
\* to AllocateAligned: tiny, exactly a quarter block, more than a quarter
\* block, more than a whole block.
AllocateSizes == {1, 1024, 2047, 4097}
AlignedSizes == {0} \cup AllocateSizes

\* Distance between the allocator's previous block and the next one.
HeapGaps == {0, Align}

AlignUp(a) == ((a + Align - 1) \div Align) * Align

NoCall == [op |-> "none", bytes |-> 0, result |-> 0, path |-> "none",
           left_behind |-> 0]

ArenaStart ==
  /\ alloc_ptr_ = 0
  /\ alloc_bytes_remaining_ = 0
  /\ blocks_ = <<>>
  /\ memory_usage_ = 0
  /\ heap_top = Align
  /\ returned = <<>>
  /\ last_call = NoCall

ArenaInit == ArenaStart /\ SepIdle /\ SuccIdle /\ CodecIdle /\ IkIdle

\* operator new[]: a fresh, suitably aligned range disjoint from all others.
NewArray(block_bytes, result) ==
  /\ \E gap \in HeapGaps : result = heap_top + gap
  /\ heap_top' = AlignUp(result + block_bytes)

\* Slip: the block-list pointer is left out of the accounting.
NewBlockUsage_NoPointer(block_bytes) == block_bytes

NewBlockUsage(block_bytes) == block_bytes + kPointerSize

AllocateNewBlock(block_bytes, result) ==
  /\ NewArray(block_bytes, result)
  /\ blocks_' = Append(blocks_, [base |-> result, size |-> block_bytes])
  /\ memory_usage_' = memory_usage_ + NewBlockUsage(block_bytes)

\* Slip: half a block instead of a quarter.
FallbackIsDedicated_Half(bytes) == bytes > kBlockSize \div 2

FallbackIsDedicated(bytes) == bytes > kBlockSize \div 4

AllocateFallback(bytes, result) ==
  IF FallbackIsDedicated(bytes)
    THEN /\ AllocateNewBlock(bytes, result)
         /\ UNCHANGED <<alloc_ptr_, alloc_bytes_remaining_>>
    ELSE /\ AllocateNewBlock(kBlockSize, result)
         /\ alloc_ptr_' = result + bytes
         /\ alloc_bytes_remaining_' = kBlockSize - bytes

FallbackPath(bytes) ==
  IF FallbackIsDedicated(bytes) THEN "dedicated" ELSE "new_block"

\* Addresses a call can return: the bump pointer (possibly padded) or the
\* start of a fresh block.
ResultCandidates ==
  {alloc_ptr_ + s : s \in 0..(Align - 1)} \cup {heap_top + g : g \in HeapGaps}

Note(op, bytes, result, path) ==
  /\ returned' = Append(returned, [ptr |-> result, n |-> bytes, op |-> op])
  /\ last_call' = [op |-> op, bytes |-> bytes, result |-> result,
                   path |-> path,
                   left_behind |-> IF path = "new_block"
                                     THEN alloc_bytes_remaining_ ELSE 0]

Allocate(bytes) ==
  /\ Len(returned) < MaxCalls
  /\ UNCHANGED <<sepVars, succVars, codecVars, ikVars>>
  /\ bytes > 0
  /\ \E result \in ResultCandidates :
       IF bytes <= alloc_bytes_remaining_
         THEN /\ result = alloc_ptr_
              /\ alloc_ptr_' = alloc_ptr_ + bytes
              /\ alloc_bytes_remaining_' = alloc_bytes_remaining_ - bytes
              /\ UNCHANGED <<blocks_, memory_usage_, heap_top>>
              /\ Note("Allocate", bytes, result, "carve")
         ELSE /\ AllocateFallback(bytes, result)
              /\ Note("Allocate", bytes, result, FallbackPath(bytes))

\* Slip: pads by the misalignment itself instead of its complement.
Slop_Mod(ptr) == ptr % Align

Slop(ptr) ==
  LET current_mod == ptr % Align
  IN  IF current_mod = 0 THEN 0 ELSE Align - current_mod

\* Slip: the padding is skipped but not consumed.
Needed_NoSlop(bytes, slop) == bytes

Needed(bytes, slop) == bytes + slop

AllocateAligned(bytes) ==
  /\ Len(returned) < MaxCalls
  /\ UNCHANGED <<sepVars, succVars, codecVars, ikVars>>
  /\ LET slop == Slop(alloc_ptr_)
         needed == Needed(bytes, slop)
     IN  \E result \in ResultCandidates :
           IF needed <= alloc_bytes_remaining_
             THEN /\ result = alloc_ptr_ + slop
                  /\ alloc_ptr_' = alloc_ptr_ + needed
                  /\ alloc_bytes_remaining_' = alloc_bytes_remaining_ - needed
                  /\ UNCHANGED <<blocks_, memory_usage_, heap_top>>
                  /\ Note("AllocateAligned", bytes, result, "carve")
             ELSE /\ AllocateFallback(bytes, result)
                  /\ Note("AllocateAligned", bytes, result, FallbackPath(bytes))

ArenaNext ==
  \/ \E bytes \in AllocateSizes : Allocate(bytes)
  \/ \E bytes \in AlignedSizes : AllocateAligned(bytes)

SpecArena == ArenaInit /\ [][ArenaNext]_vars

-----------------------------------------------------------------------------
(* Arena properties *)

BlockOf(r) ==
  {i \in DOMAIN blocks_ :
     /\ blocks_[i].base <= r.ptr
     /\ r.ptr + r.n <= blocks_[i].base + blocks_[i].size}

Overlap(r1, r2) == r1.ptr < r2.ptr + r2.n /\ r2.ptr < r1.ptr + r1.n

\* C1: for any sequence of Allocate(n) and AllocateAligned(n) calls with
\* n > 0, no two returned regions [ptr, ptr+n) overlap and every returned
\* region lies inside one block owned by the arena.
C1_RegionsDisjointInsideBlocks ==
  /\ \A i, j \in DOMAIN returned :
       (i < j /\ returned[i].n > 0 /\ returned[j].n > 0)
         => ~Overlap(returned[i], returned[j])
  /\ \A i \in DOMAIN returned :
       returned[i].n > 0 => BlockOf(returned[i]) # {}

\* An unaligned and a padded aligned region carved from the same block, next
\* to a dedicated oversized block.
C1_Witness ==
  /\ \E i, j \in DOMAIN returned :
       /\ i < j
       /\ returned[i].op = "Allocate" /\ returned[i].n > 0
       /\ returned[j].op = "AllocateAligned" /\ returned[j].n > 0
       /\ returned[j].ptr > returned[i].ptr + returned[i].n
       /\ BlockOf(returned[i]) \cap BlockOf(returned[j]) # {}
  /\ \E k \in DOMAIN blocks_ : blocks_[k].size > kBlockSize

\* C2: with every block starting at a multiple of max(sizeof(void*), 8),
\* every address returned by AllocateAligned(n), n >= 0, is zero modulo
\* max(sizeof(void*), 8), whatever calls came before.
C2_AlignedResults ==
  \A i \in DOMAIN returned :
    returned[i].op = "AllocateAligned" => returned[i].ptr % Align = 0

\* AllocateAligned carved from a block whose bump pointer the previous
\* Allocate had left misaligned.
C2_Witness ==
  /\ Len(returned) >= 2
  /\ last_call.op = "AllocateAligned"
  /\ last_call.path = "carve"
  /\ LET prev == returned[Len(returned) - 1]
     IN  /\ prev.op = "Allocate"
         /\ (prev.ptr + prev.n) % Align # 0
         /\ last_call.result > prev.ptr + prev.n
         /\ last_call.result < prev.ptr + prev.n + Align

RECURSIVE BlocksUsage(_)
BlocksUsage(bs) ==
  IF bs = <<>> THEN 0
  ELSE bs[1].size + kPointerSize + BlocksUsage(Tail(bs))

\* C3: the usage counter starts at 0, never decreases, grows by exactly
\* block size + sizeof(char*) when a block (standard or oversized) is
\* created, stays put on a carve-out, and so always equals the sum over all
\* blocks of (block size + pointer size).
C3_UsageAccounting ==
  /\ memory_usage_ = 0
  /\ [][/\ memory_usage_' >= memory_usage_
        /\ Len(blocks_') = Len(blocks_) => memory_usage_' = memory_usage_
        /\ Len(blocks_') # Len(blocks_) =>
             /\ Len(blocks_') = Len(blocks_) + 1
             /\ memory_usage_' = memory_usage_
                  + blocks_'[Len(blocks_')].size + kPointerSize]_vars
  /\ [](memory_usage_ = BlocksUsage(blocks_))

\* A standard block, an oversized block and a carve-out have all happened.
C3_Witness ==
  /\ \E i \in DOMAIN blocks_ : blocks_[i].size = kBlockSize
  /\ \E i \in DOMAIN blocks_ : blocks_[i].size > kBlockSize
  /\ Len(returned) > Len(blocks_)
  /\ memory_usage_ > 2 * kBlockSize

StartsCurrentBlock ==
  /\ Len(blocks_') = Len(blocks_) + 1
  /\ <<alloc_ptr_', alloc_bytes_remaining_'>>
       # <<alloc_ptr_, alloc_bytes_remaining_>>

-----------------------------------------------------------------------------
(* Bytewise comparator *)

RECURSIVE MemCmp(_, _, _)
MemCmp(a, b, n) ==
  IF n = 0 THEN 0
  ELSE IF a[1] # b[1] THEN (IF a[1] < b[1] THEN -1 ELSE 1)
  ELSE MemCmp(Tail(a), Tail(b), n - 1)

\* Slice::compare: memcmp over the common length, then the shorter is less.
SliceCompare(a, b) ==
  LET min_len == IF Len(a) < Len(b) THEN Len(a) ELSE Len(b)
      r == MemCmp(a, b, min_len)
  IN  IF r # 0 THEN r
      ELSE IF Len(a) < Len(b) THEN -1
      ELSE IF Len(a) > Len(b) THEN 1
      ELSE 0

Compare(a, b) == SliceCompare(a, b)

\* Storing an int into a char keeps the low eight bits.
ToByte(x) == x % 256

RECURSIVE DiffIndex(_, _, _, _)
DiffIndex(s, l, min_length, diff_index) ==
  IF diff_index < min_length /\ s[diff_index + 1] = l[diff_index + 1]
    THEN DiffIndex(s, l, min_length, diff_index + 1)
    ELSE diff_index

\* Slip: accepts an incremented byte equal to the limit's byte.
CanShorten_UpToLimit(diff_byte, limit_byte) ==
  diff_byte < 255 /\ diff_byte + 1 <= limit_byte

CanShorten(diff_byte, limit_byte) ==
  diff_byte < 255 /\ diff_byte + 1 < limit_byte

\* The value *start holds when FindShortestSeparator(start, limit) returns.
ShortestSeparator(s, l) ==
  LET min_length == IF Len(s) < Len(l) THEN Len(s) ELSE Len(l)
      diff_index == DiffIndex(s, l, min_length, 0)
  IN  IF diff_index >= min_length
        THEN s
        ELSE LET diff_byte == s[diff_index + 1]
             IN  IF CanShorten(diff_byte, l[diff_index + 1])
                   THEN SubSeq([s EXCEPT ![diff_index + 1] = ToByte(diff_byte + 1)],
                               1, diff_index + 1)
                   ELSE s

SepInit ==
  /\ start \in ByteStrings(MaxSepLen)
  /\ limit \in ByteStrings(MaxSepLen)
  /\ start0 = start
  /\ sep_pc = "call"
  /\ ArenaStart
  /\ SuccIdle
  /\ CodecIdle
  /\ IkIdle

\* Whether the call reached assert(Compare(*start, limit) < 0).
Shortens(s, l) ==
  LET min_length == IF Len(s) < Len(l) THEN Len(s) ELSE Len(l)
      diff_index == DiffIndex(s, l, min_length, 0)
  IN  /\ diff_index < min_length
      /\ CanShorten(s[diff_index + 1], l[diff_index + 1])

FindShortestSeparator ==
  /\ sep_pc = "call"
  /\ start' = ShortestSeparator(start, limit)
  /\ sep_pc' = IF Shortens(start, limit) /\ ~(Compare(start', limit) < 0)
                 THEN "assert" ELSE "done"
  /\ UNCHANGED <<limit, start0, arenaVars, succVars, codecVars, ikVars>>

SepNext == FindShortestSeparator

SpecSeparator == SepInit /\ [][SepNext]_vars

\* Slip: 0xff is incremented too and wraps to 0.
CanIncrement_Any(byte) == TRUE

CanIncrement(byte) == byte # 255

\* Slip: resize(i) cuts the incremented byte off.
SuccessorSize_Short(i) == i

SuccessorSize(i) == i + 1

RECURSIVE ShortSuccessorFrom(_, _)
ShortSuccessorFrom(k, i) ==
  IF i >= Len(k) THEN k
  ELSE LET byte == k[i + 1]
       IN  IF CanIncrement(byte)
             THEN SubSeq([k EXCEPT ![i + 1] = ToByte(byte + 1)],
                         1, SuccessorSize(i))
             ELSE ShortSuccessorFrom(k, i + 1)

\* The value *key holds when FindShortSuccessor(key) returns.
ShortSuccessor(k) == ShortSuccessorFrom(k, 0)

SuccInit ==
  /\ key \in ByteStrings(MaxKeyLen)
  /\ key0 = key
  /\ succ_pc = "call"
  /\ ArenaStart
  /\ SepIdle
  /\ CodecIdle
  /\ IkIdle

FindShortSuccessor ==
  /\ succ_pc = "call"
  /\ key' = ShortSuccessor(key)
  /\ succ_pc' = "done"
  /\ UNCHANGED <<key0, arenaVars, sepVars, codecVars, ikVars>>

SuccNext == FindShortSuccessor

SpecSuccessor == SuccInit /\ [][SuccNext]_vars

-----------------------------------------------------------------------------
(* Bytewise comparator properties *)

\* Unsigned bytewise order: a < b when a is a proper prefix of b or a has the
\* smaller byte at the first position where they differ.
BytewiseLess(a, b) ==
  \/ Len(a) < Len(b) /\ SubSeq(b, 1, Len(a)) = a
  \/ \E i \in 1..Len(a) :
       /\ i <= Len(b)
       /\ SubSeq(a, 1, i - 1) = SubSeq(b, 1, i - 1)
       /\ a[i] < b[i]

BytewiseLessEq(a, b) == a = b \/ BytewiseLess(a, b)

\* C4: for start < limit in unsigned bytewise order,
\* FindShortestSeparator(start, limit) leaves in start a result with
\* original start <= result < limit and len(result) <= len(original start).
C4_SeparatorCorrect ==
  (sep_pc \in {"done", "assert"} /\ BytewiseLess(start0, limit)) =>
    /\ sep_pc = "done"
    /\ BytewiseLessEq(start0, start)
    /\ BytewiseLess(start, limit)
    /\ Len(start) <= Len(start0)

\* start was really shortened and its differing byte incremented.
C4_Witness ==
  /\ sep_pc = "done"
  /\ BytewiseLess(start0, limit)
  /\ Len(start) < Len(start0)
  /\ BytewiseLess(start0, start)

AllFF(k) == \A i \in DOMAIN k : k[i] = 255

\* C5: for a key with a byte other than 0xFF, FindShortSuccessor(key) gives
\* a result strictly greater than key and no longer than it; for a key of
\* 0xFF bytes only (the empty key included) the result equals key.
C5_SuccessorCorrect ==
  succ_pc = "done" =>
    /\ ~AllFF(key0) => (BytewiseLess(key0, key) /\ Len(key) <= Len(key0))
    /\ AllFF(key0) => key = key0

\* A key that starts with 0xFF and was still incremented and truncated.
C5_Witness ==
  /\ succ_pc = "done"
  /\ Len(key0) >= 3
  /\ key0[1] = 255
  /\ ~AllFF(key0)
  /\ Len(key) < Len(key0)

AbFfFf == <<97, 98, 255, 255>>

\* C6 as stated: FindShortSuccessor applied to 'a','b',0xFF,0xFF yields "ac".
C6_Original ==
  (succ_pc = "done" /\ key0 = AbFfFf) => key = <<97, 99>>

\* C6 amended: FindShortSuccessor applied to 'a','b',0xFF,0xFF yields the
\* 1-byte result "b": the first byte that is not 0xFF is 'a'.
C6_SuccessorOfAbFfFf ==
  (succ_pc = "done" /\ key0 = AbFfFf) => key = <<98>>

C6_Witness == succ_pc = "done" /\ key0 = AbFfFf

-----------------------------------------------------------------------------
(* Internal key codec *)

\* Sequence numbers in [0, 2^56 - 1], among them 0, 42, 255, 256 and the
\* maximum.
SequenceNumbers ==
  {Word(a, b, c, d) : a \in {0, 42, 255, 256, Limb - 1}, b \in {0, Limb - 1},
                      c \in {0, Limb - 1}, d \in {0, 255}}

ParsedInternalKeys ==
  [user_key : UserKeys, sequence : SequenceNumbers, type : ValueTypes]

\* x << 8 on a uint64_t: the top eight bits fall off.
ShiftLeft8(w) ==
  [i \in 1..4 |-> ((w[i] % 256) * 256)
                  + (IF i > 1 THEN w[i - 1] \div 256 ELSE 0)]

\* Slip: the tag byte is left inside the sequence number.
ShiftRight8_None(w) == w

\* x >> 8 on a uint64_t.
ShiftRight8(w) ==
  [i \in 1..4 |-> (w[i] \div 256)
                  + (IF i < 4 THEN (w[i + 1] % 256) * 256 ELSE 0)]

RECURSIVE BitOr(_, _)
BitOr(x, y) ==
  IF x = 0 THEN y
  ELSE IF y = 0 THEN x
  ELSE (IF x % 2 = 1 \/ y % 2 = 1 THEN 1 ELSE 0)
       + 2 * BitOr(x \div 2, y \div 2)

\* return (seq << 8) | t;
PackSequenceAndType(seq, t) ==
  LET shifted == ShiftLeft8(seq)
  IN  [shifted EXCEPT ![1] = BitOr(shifted[1], t)]

\* Little-endian bytes of a uint64_t.
EncodeFixed64(w) ==
  <<w[1] % 256, w[1] \div 256, w[2] % 256, w[2] \div 256,
    w[3] % 256, w[3] \div 256, w[4] % 256, w[4] \div 256>>

\* The uint64_t held little-endian in eight bytes.
DecodeFixed64(b) ==
  Word(b[1] + 256 * b[2], b[3] + 256 * b[4],
       b[5] + 256 * b[6], b[7] + 256 * b[8])

\* result->append(user_key); PutFixed64(result, PackSequenceAndType(...));
AppendedInternalKey(dst, k) ==
  dst \o k.user_key \o EncodeFixed64(PackSequenceAndType(k.sequence, k.type))

InternalKeyEncodingLength(k) == Len(k.user_key) + 8

\* The first m bytes of b, or all of b when it is shorter.
Truncated(b, m) == SubSeq(b, 1, IF m < Len(b) THEN m ELSE Len(b))

\* Eight-byte trailers as storage may hold them: tag bytes 0, 1, 2, 255 and
\* others, over several sequence bit patterns.
RawWords ==
  {Word(a, b, 0, d) : a \in {0, 1, 2, 255, 256, 257, 258, Limb - 1},
                      b \in {0, Limb - 1}, d \in {0, 255, Limb - 1}}

\* Byte strings that did not come from AppendInternalKey: any prefix of a
\* user key followed by a trailer.
RawSlices ==
  {Truncated(u \o EncodeFixed64(w), m) :
     u \in UserKeys, w \in RawWords, m \in 0..(MaxUserKeyLen + 8)}

CodecInit ==
  /\ internal_key = <<>>
  /\ origin = "none"
  /\ appended_key = Uninitialized
  /\ parse_result \in UninitializedKeys
  /\ parse_ret = FALSE
  /\ codec_pc = "start"
  /\ ArenaStart
  /\ SepIdle
  /\ SuccIdle
  /\ IkIdle

AppendInternalKey(k) ==
  /\ codec_pc = "start"
  /\ internal_key' = AppendedInternalKey(<<>>, k)
  /\ origin' = "appended"
  /\ appended_key' = k
  /\ codec_pc' = "input"
  /\ UNCHANGED <<parse_result, parse_ret, arenaVars, sepVars, succVars, ikVars>>

\* Bytes read back from storage, possibly damaged.
ReadStoredKey(bytes) ==
  /\ codec_pc = "start"
  /\ internal_key' = bytes
  /\ origin' = "raw"
  /\ codec_pc' = "input"
  /\ UNCHANGED <<appended_key, parse_result, parse_ret, arenaVars, sepVars,
                 succVars, ikVars>>

\* Slip: strict comparison rejects kTypeValue.
IsDefinedType_Strict(c) == c < kTypeValue

IsDefinedType(c) == c <= kTypeValue

\* static_cast<ValueType>(c): a value outside the enumeration's range is not
\* pinned down by the language; builds keep the byte or only its low bit.
CastToValueType(c) == IF c <= kTypeValue THEN {c} ELSE {c, c % 2}

ParseInternalKey ==
  /\ codec_pc = "input"
  /\ LET n == Len(internal_key)
     IN  IF n < 8
           THEN /\ parse_ret' = FALSE
                /\ UNCHANGED parse_result
           ELSE LET num == DecodeFixed64(SubSeq(internal_key, n - 7, n))
                    c == num[1] % 256
                IN  /\ \E t \in CastToValueType(c) :
                         parse_result' = [user_key |-> SubSeq(internal_key, 1, n - 8),
                                    sequence |-> ShiftRight8(num),
                                    type |-> t]
                    /\ parse_ret' = IsDefinedType(c)
  /\ codec_pc' = "parsed"
  /\ UNCHANGED <<internal_key, origin, appended_key, arenaVars, sepVars,
                 succVars, ikVars>>

CodecNext ==
  \/ \E k \in ParsedInternalKeys : AppendInternalKey(k)
  \/ \E bytes \in RawSlices : ReadStoredKey(bytes)
  \/ ParseInternalKey

SpecCodec == CodecInit /\ [][CodecNext]_vars

-----------------------------------------------------------------------------
(* Internal key codec properties *)

\* C7: for every user key k, sequence number s in [0, 2^56-1] and operation
\* code t in {0, 1}, ParseInternalKey applied to the encoding
\* k || little-endian-64((s << 8) | t) succeeds and returns exactly
\* (k, s, t), and the encoding has length len(k) + 8.
C7_RoundTrip ==
  (codec_pc = "parsed" /\ origin = "appended") =>
    /\ parse_ret
    /\ parse_result = appended_key
    /\ Len(internal_key) = Len(appended_key.user_key) + 8
    /\ Len(internal_key) = InternalKeyEncodingLength(appended_key)

\* The largest sequence number with a Value tag and a non-empty user key
\* went through the round trip.
C7_Witness ==
  /\ codec_pc = "parsed"
  /\ origin = "appended"
  /\ appended_key.sequence = kMaxSequenceNumber
  /\ appended_key.type = kTypeValue
  /\ Len(appended_key.user_key) = MaxUserKeyLen

\* The sequence number spelled by the seven bytes after the tag byte.
SequenceFromBytes(b) ==
  Word(b[1] + 256 * b[2], b[3] + 256 * b[4], b[5] + 256 * b[6], b[7])

\* C8: ParseInternalKey returns false for every input shorter than 8 bytes
\* and for every input of at least 8 bytes whose low tag byte exceeds
\* Value = 1; it returns true for every input of at least 8 bytes whose low
\* tag byte is 0 or 1, with sequence = word >> 8 and user key = the prefix
\* before the last 8 bytes.
C8_ParseOutcome ==
  codec_pc = "parsed" =>
    LET n == Len(internal_key)
    IN  /\ n < 8 => ~parse_ret
        /\ (n >= 8 /\ internal_key[n - 7] > 1) => ~parse_ret
        /\ (n >= 8 /\ internal_key[n - 7] <= 1) =>
             /\ parse_ret
             /\ parse_result.type = internal_key[n - 7]
             /\ parse_result.sequence = SequenceFromBytes(SubSeq(internal_key, n - 6, n))
             /\ parse_result.user_key = SubSeq(internal_key, 1, n - 8)

\* A stored trailer with an undefined tag byte was rejected.
C8_Witness ==
  /\ codec_pc = "parsed"
  /\ origin = "raw"
  /\ Len(internal_key) > 8
  /\ internal_key[Len(internal_key) - 7] = 2
  /\ ~parse_ret

-----------------------------------------------------------------------------
(* InternalKey *)

\* Slices handed to InternalKey::DecodeFrom.
DecodeInputs ==
  {Truncated(AppendedInternalKey(<<>>, k), m) :
     k \in ParsedInternalKeys, m \in 0..(MaxUserKeyLen + 8)}

IkInit ==
  /\ rep_ = <<>>
  /\ ik_call = [op |-> "InternalKey()", ret |-> "none"]
  /\ ik_pc = "live"
  /\ ArenaStart
  /\ SepIdle
  /\ SuccIdle
  /\ CodecIdle

IkUnchanged == UNCHANGED <<arenaVars, sepVars, succVars, codecVars>>

\* InternalKey() {}
IkDefault ==
  /\ ik_pc = "live"
  /\ rep_' = <<>>
  /\ ik_call' = [op |-> "InternalKey()", ret |-> "none"]
  /\ UNCHANGED ik_pc
  /\ IkUnchanged

\* InternalKey(user_key, s, t)
IkConstruct(k) ==
  /\ ik_pc = "live"
  /\ rep_' = AppendedInternalKey(<<>>, k)
  /\ ik_call' = [op |-> "InternalKey(user_key, s, t)", ret |-> "none"]
  /\ UNCHANGED ik_pc
  /\ IkUnchanged

DecodeFrom(s) ==
  /\ ik_pc = "live"
  /\ rep_' = s
  /\ ik_call' = [op |-> "DecodeFrom", ret |-> (s # <<>>)]
  /\ UNCHANGED ik_pc
  /\ IkUnchanged

\* assert(!rep_.empty()); return rep_;
Encode ==
  /\ ik_pc = "live"
  /\ IF rep_ # <<>>
       THEN /\ ik_call' = [op |-> "Encode", ret |-> rep_]
            /\ UNCHANGED ik_pc
       ELSE /\ ik_call' = [op |-> "Encode", ret |-> "assert(!rep_.empty())"]
            /\ ik_pc' = "stopped"
  /\ UNCHANGED rep_
  /\ IkUnchanged

\* What a too-short argument does: the assertion stops a checked build; an
\* unchecked build forms a Slice whose size has wrapped around.
ShortKeyOutcomes == {"assert(internal_key.size() >= 8)", "size wrapped"}

\* The outcomes of ExtractUserKey(internal_key).
ExtractUserKey(ikey) ==
  IF Len(ikey) >= 8
    THEN {SubSeq(ikey, 1, Len(ikey) - 8)}
    ELSE ShortKeyOutcomes

user_key ==
  /\ ik_pc = "live"
  /\ \E ret \in ExtractUserKey(rep_) :
       /\ ik_call' = [op |-> "user_key", ret |-> ret]
       /\ ik_pc' = IF ret \in ShortKeyOutcomes THEN "stopped" ELSE ik_pc
  /\ UNCHANGED rep_
  /\ IkUnchanged

SetFrom(p) ==
  /\ ik_pc = "live"
  /\ rep_' = AppendedInternalKey(<<>>, p)
  /\ ik_call' = [op |-> "SetFrom", ret |-> "none"]
  /\ UNCHANGED ik_pc
  /\ IkUnchanged

Clear ==
  /\ ik_pc = "live"
  /\ rep_' = <<>>
  /\ ik_call' = [op |-> "Clear", ret |-> "none"]
  /\ UNCHANGED ik_pc
  /\ IkUnchanged

IkNext ==
  \/ IkDefault
  \/ \E k \in ParsedInternalKeys : IkConstruct(k)
  \/ \E s \in DecodeInputs : DecodeFrom(s)
  \/ Encode
  \/ user_key
  \/ \E p \in ParsedInternalKeys : SetFrom(p)
  \/ Clear

SpecInternalKey == IkInit /\ [][IkNext]_vars

-----------------------------------------------------------------------------
(* InternalKey properties *)

\* C9: after any sequence of InternalKey operations (default construction,
\* construction from (user_key, sequence, type), DecodeFrom of an arbitrary
\* slice, SetFrom, Clear) rep_ is empty or at least 8 bytes long, so that
\* whenever Encode's non-empty assertion passes, user_key() does not
\* violate the size >= 8 assertion of ExtractUserKey.
C9_RepInvariant ==
  /\ rep_ = <<>> \/ Len(rep_) >= 8
  /\ (ik_call.op = "user_key" /\ rep_ # <<>>) => ik_pc = "live"

====
